---- MODULE Spec2Model ----
(***************************************************************************)
(* Model of add_new_cfs.py: the CSV Row Parser (parse_new_flows_from_csv)  *)
(* and the Node Resolver (parse_node_ids_and_cfs).                         *)
(*                                                                         *)
(* Text is a sequence of one-character strings, so that strip, split and   *)
(* replace are computed character by character.  None (a value that        *)
(* csv.DictReader fills in for a field a short row does not have) is a     *)
(* one-element sequence holding a token that is no character.              *)
(***************************************************************************)
EXTENDS Integers, Sequences, FiniteSets, TLC

VARIABLES
    file,            \* the file at the path: [exists, records]
    op,              \* the function being executed: "none", "parser", "resolver"
    pc,              \* position inside the executing function
    fieldnames,      \* reader.fieldnames of the open DictReader
    pos,             \* number of csv records the reader has consumed
    row_index,       \* value enumerate() gives the next data row
    parsed_rows,     \* parse_new_flows_from_csv: parsed_rows
    node_cf_tuples,  \* parse_node_ids_and_cfs: node_cf_tuples
    database_name,   \* parse_node_ids_and_cfs: database_name
    lookups,         \* every bd.get_node call issued, in order: <<name, code>>
    outcome,         \* per function: what the call returned or raised
    examined         \* per function: number of data rows its reader handed over

vars == <<file, op, pc, fieldnames, pos, row_index, parsed_rows,
          node_cf_tuples, database_name, lookups, outcome, examined>>

-----------------------------------------------------------------------------
(* Bounds of the model *)

MaxRows == 2
MaxNodeId == 1

-----------------------------------------------------------------------------
(* Text *)

None == <<"<None>">>

Whitespace == {" ", "\t"}

Digits == {"0", "1", "2", "3", "4", "5", "6", "7", "8", "9"}

\* str.strip(): leading and trailing whitespace removed
Strip(s) ==
    LET keep == {i \in 1..Len(s) : s[i] \notin Whitespace}
    IN  IF keep = {} THEN <<>>
        ELSE LET first == CHOOSE i \in keep : \A j \in keep : i <= j
                 last  == CHOOSE i \in keep : \A j \in keep : j <= i
             IN  SubSeq(s, first, last)

\* str.replace(" ", "_")
ReplaceSpaces(s) == [i \in 1..Len(s) |-> IF s[i] = " " THEN "_" ELSE s[i]]

\* str.split("::"): left to right, non-overlapping occurrences of the delimiter
RECURSIVE SplitOnDelimiter(_)
SplitOnDelimiter(s) ==
    LET hits == {i \in 1..(Len(s) - 1) : s[i] = ":" /\ s[i + 1] = ":"}
    IN  IF hits = {} THEN <<s>>
        ELSE LET i == CHOOSE h \in hits : \A k \in hits : h <= k
             IN  <<SubSeq(s, 1, i - 1)>> \o SplitOnDelimiter(SubSeq(s, i + 2, Len(s)))

\* segment.strip() for each segment whose strip() is non-empty, in order
RECURSIVE StrippedNonBlank(_)
StrippedNonBlank(segments) ==
    IF segments = <<>> THEN <<>>
    ELSE (IF Strip(Head(segments)) # <<>> THEN <<Strip(Head(segments))>> ELSE <<>>)
         \o StrippedNonBlank(Tail(segments))

\* ", ".join(names)
RECURSIVE JoinComma(_)
JoinComma(names) ==
    IF names = <<>> THEN <<>>
    ELSE IF Len(names) = 1 THEN <<names[1]>>
    ELSE <<names[1], ", ">> \o JoinComma(Tail(names))

-----------------------------------------------------------------------------
(* float(text) on decimal literals: [sign] digits [. digits] [e [sign]     *)
(* digits], surrounding whitespace allowed.  The value is <<m, e>> for     *)
(* m * 10^e with m not divisible by ten (zero is <<0, 0>>).                *)

DigitValue(c) ==
    CASE c = "0" -> 0 [] c = "1" -> 1 [] c = "2" -> 2 [] c = "3" -> 3 [] c = "4" -> 4
      [] c = "5" -> 5 [] c = "6" -> 6 [] c = "7" -> 7 [] c = "8" -> 8 [] c = "9" -> 9

RECURSIVE DigitsToInt(_)
DigitsToInt(ds) ==
    IF ds = <<>> THEN 0
    ELSE DigitsToInt(SubSeq(ds, 1, Len(ds) - 1)) * 10 + DigitValue(ds[Len(ds)])

AllDigits(s) == \A i \in 1..Len(s) : s[i] \in Digits

Unsigned(s) == IF s # <<>> /\ s[1] \in {"+", "-"} THEN Tail(s) ELSE s

Negative(s) == s # <<>> /\ s[1] = "-"

RECURSIVE Normalise(_, _)
Normalise(m, e) ==
    IF m = 0 THEN <<0, 0>>
    ELSE IF m % 10 = 0 THEN Normalise(m \div 10, e + 1)
    ELSE <<m, e>>

\* the position of the first character of s that is in chars, Len(s) + 1 if none
FirstOf(s, chars) ==
    LET hits == {i \in 1..Len(s) : s[i] \in chars}
    IN  IF hits = {} THEN Len(s) + 1 ELSE CHOOSE i \in hits : \A j \in hits : i <= j

\* the mantissa cut at its decimal point
MantissaAt(mant, dPos, exp) ==
    [int  |-> SubSeq(mant, 1, dPos - 1),
     frac |-> SubSeq(mant, dPos + 1, Len(mant)),
     exp  |-> exp]

\* the unsigned literal cut at its exponent mark (exp is None when there is none)
LiteralAt(t, ePos) ==
    MantissaAt(SubSeq(t, 1, ePos - 1),
               FirstOf(SubSeq(t, 1, ePos - 1), {"."}),
               IF ePos > Len(t) THEN None ELSE SubSeq(t, ePos + 1, Len(t)))

\* the pieces of a literal: integer digits, fraction digits, exponent text
FloatPieces(raw) == LiteralAt(Unsigned(Strip(raw)), FirstOf(Unsigned(Strip(raw)), {"e", "E"}))

WellFormedPieces(p) ==
    /\ AllDigits(p.int) /\ AllDigits(p.frac)
    /\ Len(p.int) + Len(p.frac) >= 1
    /\ \/ p.exp = None
       \/ /\ Unsigned(p.exp) # <<>>
          /\ AllDigits(Unsigned(p.exp))

PiecesValue(p, negative) ==
    Normalise((IF negative THEN 0 - 1 ELSE 1) * DigitsToInt(p.int \o p.frac),
              (IF p.exp = None THEN 0
               ELSE IF Negative(p.exp) THEN 0 - DigitsToInt(Unsigned(p.exp))
               ELSE DigitsToInt(Unsigned(p.exp))) - Len(p.frac))

\* whether float(raw) succeeds
IsFloatText(raw) == WellFormedPieces(FloatPieces(raw))

\* the value float(raw) returns
FloatValue(raw) == PiecesValue(FloatPieces(raw), Negative(Strip(raw)))

-----------------------------------------------------------------------------
(* What a call returns or raises *)

Pending == [exc |-> "pending"]

Return(v) == [exc |-> "none", value |-> v]

\* an exception: its type, which raise statement (or failing expression)
\* produced it, the line number its message cites (0: none) and the other
\* values formatted into the message
Raise(type, what, line, names) ==
    [exc |-> type, what |-> what, line |-> line, names |-> names]

\* None.strip()
NoneHasNoStrip == Raise("AttributeError", "NoneType has no attribute strip", 0, <<>>)

-----------------------------------------------------------------------------
(* The helpers of add_new_cfs.py *)

\* faulty variant: the segments are kept as split, not trimmed
_parse_categories_Untrimmed(raw, line_number) ==
    IF raw = None THEN NoneHasNoStrip
    ELSE IF Strip(raw) = <<>> THEN Return(<<>>)
    ELSE LET parts == SelectSeq(SplitOnDelimiter(raw), LAMBDA segment : Strip(segment) # <<>>)
         IN  IF parts = <<>>
             THEN Raise("ValueError", "categories column is malformed", line_number, <<>>)
             ELSE Return(parts)

_parse_categories(raw, line_number) ==
    IF raw = None THEN NoneHasNoStrip
    ELSE IF Strip(raw) = <<>> THEN Return(<<>>)
    ELSE LET parts == StrippedNonBlank(SplitOnDelimiter(raw))
         IN  IF parts = <<>>
             THEN Raise("ValueError", "categories column is malformed", line_number, <<>>)
             ELSE Return(parts)

_sanitize_code(name) == ReplaceSpaces(Strip(name))

\* faulty variant: a missing value is taken for zero, as float(raw or 0) would
_parse_cf_MissingAsZero(raw, line_number) ==
    IF raw = None THEN Return(<<0, 0>>)
    ELSE IF IsFloatText(raw) THEN Return(FloatValue(raw))
    ELSE Raise("ValueError", "cf column must contain a floating point value",
               line_number, <<>>)

_parse_cf(raw, line_number) ==
    IF raw # None /\ IsFloatText(raw)
    THEN Return(FloatValue(raw))
    ELSE Raise("ValueError", "cf column must contain a floating point value",
               line_number, <<>>)

required_columns ==
    <<"new_database", "flow_name", "code", "unit", "CAS number", "categories", "cf">>

-----------------------------------------------------------------------------
(* csv.DictReader over the records of the file (a record is the list of    *)
(* cells of one line; a blank line is the empty list)                      *)

RestKey == "<restkey>"

Range(seq) == {seq[i] : i \in 1..Len(seq)}

\* reader.fieldnames: the first record, None when the file has none
ReaderFieldnames(records) == IF records = <<>> THEN None ELSE records[1]

\* dict(zip(fieldnames, row)), then restkey / restval for a long / short row
RowDict(names, cells) ==
    LET keys == Range(names) \cup (IF Len(cells) > Len(names) THEN {RestKey} ELSE {})
    IN  [key \in keys |->
            IF key = RestKey /\ RestKey \notin Range(names)
            THEN SubSeq(cells, Len(names) + 1, Len(cells))
            ELSE LET at   == {j \in 1..Len(names) : names[j] = key}
                     last == CHOOSE j \in at : \A k \in at : k <= j
                 IN  IF last > Len(cells) THEN None ELSE cells[last]]

\* DictReader.__next__: blank records are skipped; stop at the end of the file
NextRow(records, names, consumed) ==
    LET rest == {j \in (consumed + 1)..Len(records) : records[j] # <<>>}
    IN  IF rest = {} THEN [stop |-> TRUE, pos |-> Len(records), row |-> <<>>]
        ELSE LET j == CHOOSE k \in rest : \A l \in rest : k <= l
             IN  [stop |-> FALSE, pos |-> j, row |-> RowDict(names, records[j])]

\* row.get(key, default)
RowGet(row, key, default) == IF key \in DOMAIN row THEN row[key] ELSE default

-----------------------------------------------------------------------------
(* The header check both functions make *)

\* faulty variant: only the first missing column is reported
MissingColumns_FirstOnly(names) ==
    SubSeq(SelectSeq(required_columns, LAMBDA c : c \notin Range(names)), 1, 1)

MissingColumns(names) == SelectSeq(required_columns, LAMBDA c : c \notin Range(names))

MissingColumnsError(missing_columns) ==
    Raise("ValueError", "CSV file must contain the following columns", 0,
          <<JoinComma(required_columns), JoinComma(missing_columns)>>)

HeaderCheck(names) ==
    IF names = None
    THEN Raise("TypeError", "argument of type NoneType is not iterable", 0, <<>>)
    ELSE IF MissingColumns(names) # <<>>
    THEN MissingColumnsError(MissingColumns(names))
    ELSE Return(names)

-----------------------------------------------------------------------------
(* One data row of parse_new_flows_from_csv *)

\* faulty variant: the raw code is tested before it is trimmed
CodeOf_TestsRaw(code_raw, flow_name) ==
    IF code_raw # <<>> THEN Strip(code_raw) ELSE _sanitize_code(flow_name)

\* code_raw if code_raw else _sanitize_code(flow_name)
CodeOf(code_raw, flow_name) ==
    IF Strip(code_raw) # <<>> THEN Strip(code_raw) ELSE _sanitize_code(flow_name)

\* the dictionary appended to parsed_rows
FlowRecord(row, categories, cf) ==
       "database"   :> Strip(row["new_database"])
    @@ "name"       :> Strip(row["flow_name"])
    @@ "code"       :> CodeOf(row["code"], Strip(row["flow_name"]))
    @@ "unit"       :> Strip(row["unit"])
    @@ "CAS number" :> Strip(IF row["CAS number"] = None THEN <<>> ELSE row["CAS number"])
    @@ "categories" :> categories
    @@ "cf"         :> cf

\* the statements after the two helper calls
ParsedFlowRow(row, categories, cf) ==
    IF categories.exc # "none" THEN categories
    ELSE IF cf.exc # "none" THEN cf
    ELSE IF \E column \in {"flow_name", "code", "new_database", "unit"} :
                RowGet(row, column, <<>>) = None
    THEN NoneHasNoStrip
    ELSE Return(FlowRecord(row, categories.value, cf.value))

ParseFlowRow(row, line) ==
    ParsedFlowRow(row,
                  _parse_categories(RowGet(row, "categories", <<>>), line),
                  _parse_cf(RowGet(row, "cf", None), line))

-----------------------------------------------------------------------------
(* One data row of parse_node_ids_and_cfs: cf and the lookup key *)

KeyAndCf(row, cf) ==
    IF cf.exc # "none" THEN cf
    ELSE IF \E column \in {"flow_name", "code"} : RowGet(row, column, <<>>) = None
    THEN NoneHasNoStrip
    ELSE Return([name |-> Strip(row["flow_name"]),
                 code |-> CodeOf(row["code"], Strip(row["flow_name"])),
                 cf   |-> cf.value])

RowKeyAndCf(row, line) == KeyAndCf(row, _parse_cf(RowGet(row, "cf", None), line))

\* the name the first data row establishes
EstablishedName(db_raw) ==
    IF db_raw = None THEN NoneHasNoStrip
    ELSE IF Strip(db_raw) = <<>>
    THEN Raise("ValueError", "Database name is missing in the 'new_database' column",
               0, <<>>)
    ELSE Return(Strip(db_raw))

FirstDatabaseName(row) == EstablishedName(RowGet(row, "new_database", <<>>))

\* the check of a later row against the established name
\* faulty variant: the row's name is compared as written, untrimmed
ComparedName_Untrimmed(db_raw, line, established) ==
    IF db_raw = None THEN NoneHasNoStrip
    ELSE IF db_raw # established
    THEN Raise("ValueError", "Database name mismatch", line, <<established, db_raw>>)
    ELSE Return(db_raw)

ComparedName(db_raw, line, established) ==
    IF db_raw = None THEN NoneHasNoStrip
    ELSE IF Strip(db_raw) # established
    THEN Raise("ValueError", "Database name mismatch", line,
               <<established, Strip(db_raw)>>)
    ELSE Return(Strip(db_raw))

SameDatabase(row, line, established) ==
    ComparedName(RowGet(row, "new_database", <<>>), line, established)

\* what bd.get_node can answer: a node with an id, or one of its two failures
LookupOutcomes ==
    {[found |-> TRUE, id |-> i, error |-> "none"] : i \in 1..MaxNodeId}
    \cup {[found |-> FALSE, id |-> 0, error |-> e] : e \in {"UnknownObject", "MultipleResults"}}

-----------------------------------------------------------------------------
(* The files the functions are run on *)

\* the seven required columns, in the order of the docstring's example
HeaderPlain == required_columns

\* the header of the tests: an extra "type" column before cf
HeaderWithType ==
    <<"new_database", "flow_name", "code", "unit", "CAS number", "categories", "type", "cf">>

\* the required columns with "CAS number" last
HeaderCasLast ==
    <<"new_database", "flow_name", "code", "unit", "categories", "cf", "CAS number">>

\* headers that lack required columns (the first is test_missing_required_column's)
HeadersLacking ==
    { <<"new_database", "flow_name", "code", "unit", "CAS number", "categories", "type">>,
      <<"cf", "type", "unit", "code", "new_database">>,
      <<>> }

BaseFields ==
       "new_database" :> <<"d">>
    @@ "flow_name"    :> <<"a">>
    @@ "code"         :> <<"c">>
    @@ "unit"         :> <<"u">>
    @@ "CAS number"   :> <<"9">>
    @@ "categories"   :> <<"w">>
    @@ "type"         :> <<"t">>
    @@ "cf"           :> <<"1">>

With(fields, column, text) == [fields EXCEPT ![column] = text]

DatabaseTexts == { <<" ", "d">>, <<"e">>, <<>> }

\* flow_name and code cells, in pairs
NameAndCodeTexts ==
    { << <<" ", "a", " ", "b", " ">>, <<>> >>,
      << <<" ", "a", " ", "b", " ">>, <<" ", "c", " ">> >>,
      << <<"a", "\t", "b">>, <<" ">> >>,
      << <<"a">>, <<>> >>,
      << <<>>, <<>> >> }

CategoryTexts ==
    { <<>>, <<"\t">>, <<":", ":">>,
      <<" ", "w", " ", ":", ":", " ", "s", " ", "f", " ">>,
      <<"w", ":", ":", ":", ":", " ", ":", ":", "s">>,
      <<":", ":", ":">> }

CfTexts ==
    { <<"x">>, <<>>, <<" ", "2", ".", "5", "0", " ">>, <<"-", "1", ".", "5", "E", "2">>,
      <<"1", "e">> }

SampleFields ==
    {BaseFields}
    \cup {With(BaseFields, "new_database", t) : t \in DatabaseTexts}
    \cup {With(With(BaseFields, "flow_name", t[1]), "code", t[2]) : t \in NameAndCodeTexts}
    \cup {With(BaseFields, "categories", t) : t \in CategoryTexts}
    \cup {With(BaseFields, "cf", t) : t \in CfTexts}
    \cup {With(With(BaseFields, "CAS number", <<>>), "unit", <<" ", "u", " ">>)}
    \cup {With(With(BaseFields, "cf", <<"x">>), "categories", <<":", ":">>),
          With(With(BaseFields, "cf", <<"x">>), "new_database", <<"e">>),
          With(With(BaseFields, "cf", <<"x">>), "new_database", <<>>)}

\* the cells of a line that gives each column of the header its field
Line(header, fields) == [j \in 1..Len(header) |-> fields[header[j]]]

\* lines with fewer cells than the header, with more, and blank lines
OddLines(header) ==
    LET full == Line(header, BaseFields)
    IN  { <<>>,
          SubSeq(full, 1, 2),
          SubSeq(full, 1, Len(header) - 1),
          full \o <<<<"z">>>> }

SeqsUpTo(S, n) == UNION {[1..k -> S] : k \in 0..n}

Files ==
    {[exists |-> FALSE, records |-> <<>>], [exists |-> TRUE, records |-> <<>>]}
    \cup {[exists |-> TRUE, records |-> <<HeaderPlain>> \o rows] :
            rows \in SeqsUpTo({Line(HeaderPlain, f) : f \in SampleFields}
                              \cup OddLines(HeaderPlain), MaxRows)}
    \cup UNION {{[exists |-> TRUE, records |-> <<h>> \o rows] :
                    rows \in SeqsUpTo({Line(h, BaseFields)} \cup OddLines(h), MaxRows)} :
                 h \in {HeaderWithType, HeaderCasLast}}
    \cup {[exists |-> TRUE, records |-> <<h>> \o rows] :
            h \in HeadersLacking,
            rows \in SeqsUpTo({Line(HeaderWithType, BaseFields)}, MaxRows)}

-----------------------------------------------------------------------------
(* The state machine: a caller parses the rows of a file, then resolves    *)
(* its nodes; each call opens the file anew.                               *)

Init ==
    /\ file \in Files
    /\ op = "none"
    /\ pc = "idle"
    /\ fieldnames = None
    /\ pos = 0
    /\ row_index = 0
    /\ parsed_rows = <<>>
    /\ node_cf_tuples = <<>>
    /\ database_name = None
    /\ lookups = <<>>
    /\ outcome = [parser |-> Pending, resolver |-> Pending]
    /\ examined = [parser |-> 0, resolver |-> 0]

\* the function returns or raises: its locals are gone, the file is closed
Finish(f, result, rows) ==
    /\ outcome' = [outcome EXCEPT ![f] = result]
    /\ examined' = [examined EXCEPT ![f] = rows]
    /\ op' = "none"
    /\ pc' = "idle"
    /\ fieldnames' = None
    /\ pos' = 0
    /\ row_index' = 0
    /\ parsed_rows' = <<>>
    /\ node_cf_tuples' = <<>>
    /\ database_name' = None

\* the header was read: its check, and the loop is about to start
Entered(f, first_pc, first_index, checked) ==
    IF checked.exc # "none"
    THEN Finish(f, checked, 0)
    ELSE /\ op' = f
         /\ pc' = first_pc
         /\ fieldnames' = checked.value
         /\ pos' = 1
         /\ row_index' = first_index
         /\ UNCHANGED <<parsed_rows, node_cf_tuples, database_name, outcome, examined>>

\* from the call to the end of the header check
Enter(f, first_pc, first_index) ==
    IF ~file.exists
    THEN Finish(f, Raise("FileNotFoundError", "CSV file not found", 0, <<>>), 0)
    ELSE Entered(f, first_pc, first_index, HeaderCheck(ReaderFieldnames(file.records)))

CallParser ==
    /\ op = "none"
    /\ outcome.parser = Pending
    /\ Enter("parser", "rows", 2)
    /\ UNCHANGED <<file, lookups>>

\* faulty variant: the record is put in front of the list
ParserBody_Prepend(next, made) ==
    IF made.exc # "none"
    THEN Finish("parser", made, examined.parser + 1)
    ELSE /\ parsed_rows' = <<made.value>> \o parsed_rows
         /\ pos' = next.pos
         /\ row_index' = row_index + 1
         /\ examined' = [examined EXCEPT !.parser = @ + 1]
         /\ UNCHANGED <<op, pc, fieldnames, node_cf_tuples, database_name, outcome>>

\* the body of the loop, given what the helpers made of the row
ParserBody(next, made) ==
    IF made.exc # "none"
    THEN Finish("parser", made, examined.parser + 1)
    ELSE /\ parsed_rows' = Append(parsed_rows, made.value)
         /\ pos' = next.pos
         /\ row_index' = row_index + 1
         /\ examined' = [examined EXCEPT !.parser = @ + 1]
         /\ UNCHANGED <<op, pc, fieldnames, node_cf_tuples, database_name, outcome>>

ParserTurn(next) ==
    IF next.stop
    THEN Finish("parser", Return(parsed_rows), examined.parser)
    ELSE ParserBody(next, ParseFlowRow(next.row, row_index))

\* one turn of the loop of parse_new_flows_from_csv, or its return
ParserRow ==
    /\ op = "parser"
    /\ pc = "rows"
    /\ ParserTurn(NextRow(file.records, fieldnames, pos))
    /\ UNCHANGED <<file, lookups>>

CallResolver ==
    /\ op = "none"
    /\ outcome.parser # Pending
    /\ outcome.resolver = Pending
    /\ Enter("resolver", "first_row", 0)
    /\ UNCHANGED <<file, lookups>>

\* faulty variant: a pair equal to the previous row's is not looked up again
Lookup_Cached(key, node, line, established, next_pos) ==
    IF lookups # <<>> /\ lookups[Len(lookups)] = <<key.name, key.code>>
    THEN /\ UNCHANGED lookups
         /\ node_cf_tuples' = Append(node_cf_tuples,
                                     <<node_cf_tuples[Len(node_cf_tuples)][1], key.cf>>)
         /\ database_name' = established
         /\ pos' = next_pos
         /\ row_index' = line + 1
         /\ pc' = "rows"
         /\ examined' = [examined EXCEPT !.resolver = @ + 1]
         /\ UNCHANGED <<op, fieldnames, parsed_rows, outcome>>
    ELSE /\ lookups' = Append(lookups, <<key.name, key.code>>)
         /\ IF ~node.found
            THEN Finish("resolver", Raise(node.error, "raised by bd.get_node", 0, <<>>),
                        examined.resolver + 1)
            ELSE /\ node_cf_tuples' = Append(node_cf_tuples, <<node.id, key.cf>>)
                 /\ database_name' = established
                 /\ pos' = next_pos
                 /\ row_index' = line + 1
                 /\ pc' = "rows"
                 /\ examined' = [examined EXCEPT !.resolver = @ + 1]
                 /\ UNCHANGED <<op, fieldnames, parsed_rows, outcome>>

\* bd.get_node(name=flow_name, code=code) and the append that follows it
Lookup(key, node, line, established, next_pos) ==
    /\ lookups' = Append(lookups, <<key.name, key.code>>)
    /\ IF ~node.found
       THEN Finish("resolver", Raise(node.error, "raised by bd.get_node", 0, <<>>),
                   examined.resolver + 1)
       ELSE /\ node_cf_tuples' = Append(node_cf_tuples, <<node.id, key.cf>>)
            /\ database_name' = established
            /\ pos' = next_pos
            /\ row_index' = line + 1
            /\ pc' = "rows"
            /\ examined' = [examined EXCEPT !.resolver = @ + 1]
            /\ UNCHANGED <<op, fieldnames, parsed_rows, outcome>>

\* a data row of the resolver, given the outcome of its database-name check
ResolverBody(next, node, line, name, key) ==
    IF name.exc # "none"
    THEN Finish("resolver", name, examined.resolver + 1) /\ UNCHANGED lookups
    ELSE IF key.exc # "none"
    THEN Finish("resolver", key, examined.resolver + 1) /\ UNCHANGED lookups
    ELSE Lookup(key.value, node, line, name.value, next.pos)

ResolverFirstTurn(next, node) ==
    IF next.stop
    THEN /\ Finish("resolver",
                   Raise("ValueError", "CSV file is empty (no data rows)", 0, <<>>), 0)
         /\ UNCHANGED lookups
    ELSE ResolverBody(next, node, 2, FirstDatabaseName(next.row), RowKeyAndCf(next.row, 2))

\* the first data row of parse_node_ids_and_cfs
ResolverFirstRow(node) ==
    /\ op = "resolver"
    /\ pc = "first_row"
    /\ ResolverFirstTurn(NextRow(file.records, fieldnames, pos), node)
    /\ UNCHANGED file

ResolverTurn(next, node) ==
    IF next.stop
    THEN Finish("resolver", Return(node_cf_tuples), examined.resolver) /\ UNCHANGED lookups
    ELSE ResolverBody(next, node, row_index,
                      SameDatabase(next.row, row_index, database_name),
                      RowKeyAndCf(next.row, row_index))

\* one turn of the loop over the remaining rows, or the return
ResolverRow(node) ==
    /\ op = "resolver"
    /\ pc = "rows"
    /\ ResolverTurn(NextRow(file.records, fieldnames, pos), node)
    /\ UNCHANGED file

Next ==
    \/ CallParser
    \/ ParserRow
    \/ CallResolver
    \/ \E node \in LookupOutcomes : ResolverFirstRow(node)
    \/ \E node \in LookupOutcomes : ResolverRow(node)

Spec == Init /\ [][Next]_vars

-----------------------------------------------------------------------------
(* Vocabulary of the properties: the file as the caller sees it *)

RequiredNames ==
    {"new_database", "flow_name", "code", "unit", "CAS number", "categories", "cf"}

\* the file exists and its header line has every required column
HeaderComplete ==
    /\ file.exists
    /\ file.records # <<>>
    /\ \A c \in RequiredNames : \E j \in 1..Len(file.records[1]) : file.records[1][j] = c

\* the data rows: the non-blank lines after the header, in file order
DataLines == SelectSeq(Tail(file.records), LAMBDA cells : cells # <<>>)

NumDataRows == Len(DataLines)

\* the k-th data row as a mapping from column name to cell (None: no such cell)
DataRow(k) == RowDict(file.records[1], DataLines[k])

IsBlank(text) == \A i \in 1..Len(text) : text[i] \in {" ", "\t"}

\* the trimmed non-blank segments of a categories text, in order
UsableSegments(text) ==
    LET segments == SplitOnDelimiter(text)
    IN  SelectSeq([j \in 1..Len(segments) |-> Strip(segments[j])],
                  LAMBDA segment : segment # <<>>)

CategoriesAcceptable(text) == text # None /\ (IsBlank(text) \/ UsableSegments(text) # <<>>)

Convertible(text) == text # None /\ IsFloatText(text)

\* a row the Row Parser has no reason to reject
WellFormedRow(row) ==
    /\ \A c \in {"new_database", "flow_name", "code", "unit"} : row[c] # None
    /\ CategoriesAcceptable(row["categories"])
    /\ Convertible(row["cf"])

\* the code the specification gives a row
SpecifiedCode(row) ==
    IF IsBlank(row["code"])
    THEN LET name == Strip(row["flow_name"])
         IN  [i \in 1..Len(name) |-> IF name[i] = " " THEN "_" ELSE name[i]]
    ELSE Strip(row["code"])

\* the records the Row Parser has produced so far (its result once it returned)
ParserRecords ==
    IF op = "parser" THEN parsed_rows
    ELSE IF outcome.parser.exc = "none" THEN outcome.parser.value
    ELSE <<>>

IsValidationError(result, what, line) ==
    /\ result.exc = "ValueError"
    /\ result.what = what
    /\ result.line = line

CfMessage == "cf column must contain a floating point value"

CategoriesMessage == "categories column is malformed"

ColumnsMessage == "CSV file must contain the following columns"

MismatchMessage == "Database name mismatch"

-----------------------------------------------------------------------------
(* C1: on a file with a complete header whose n data rows are all          *)
(* well-formed, parse_new_flows_from_csv returns exactly n records, the    *)
(* i-th derived from the i-th data row.                                    *)

DerivedFrom(record, row) ==
    /\ record["database"] = Strip(row["new_database"])
    /\ record["name"] = Strip(row["flow_name"])
    /\ record["unit"] = Strip(row["unit"])
    /\ record["CAS number"] = (IF row["CAS number"] = None THEN <<>> ELSE Strip(row["CAS number"]))
    /\ record["code"] = SpecifiedCode(row)
    /\ record["categories"] = UsableSegments(row["categories"])
    /\ record["cf"] = FloatValue(row["cf"])

C1_OneRecordPerRowInOrder ==
    (/\ outcome.parser # Pending
     /\ HeaderComplete
     /\ \A k \in 1..NumDataRows : WellFormedRow(DataRow(k)))
    => /\ outcome.parser.exc = "none"
       /\ Len(outcome.parser.value) = NumDataRows
       /\ \A k \in 1..NumDataRows :
              LET row == DataRow(k) IN DerivedFrom(outcome.parser.value[k], row)

C1_Witness ==
    /\ outcome.parser.exc = "none"
    /\ HeaderComplete
    /\ NumDataRows = 2
    /\ Len(outcome.parser.value) = 2
    /\ outcome.parser.value[1] # outcome.parser.value[2]

-----------------------------------------------------------------------------
(* C2 as stated: a record's code is the sanitized flow_name when the raw   *)
(* code cell is empty, and the trimmed raw code otherwise.                 *)

C2_CodeByEmptyRawCode ==
    \A k \in 1..Len(ParserRecords) :
        LET row == DataRow(k)
        IN  ParserRecords[k]["code"] =
                (IF row["code"] = <<>>
                 THEN ReplaceSpaces(Strip(row["flow_name"]))
                 ELSE Strip(row["code"]))

(* C2 as amended: a record's code is the sanitized flow_name when the raw  *)
(* code cell is empty or whitespace-only, and the trimmed raw code         *)
(* otherwise; so code is non-empty whenever the trimmed flow_name is.      *)

C2_CodeByBlankRawCode ==
    \A k \in 1..Len(ParserRecords) :
        LET row == DataRow(k)
        IN  /\ ParserRecords[k]["code"] = SpecifiedCode(row)
            /\ Strip(row["flow_name"]) # <<>> => ParserRecords[k]["code"] # <<>>

C2_Witness ==
    /\ Len(ParserRecords) = 2
    /\ DataRow(1)["code"] = <<>>
    /\ ParserRecords[1]["code"] = <<"a", "_", "b">>
    /\ DataRow(2)["code"] # <<>>
    /\ IsBlank(DataRow(2)["code"])
    /\ ParserRecords[2]["code"] = <<"a", "\t", "b">>

-----------------------------------------------------------------------------
(* C3: for every data row the Row Parser examined that has a categories    *)
(* text: a blank text gives the empty sequence; a text with a non-blank    *)
(* segment gives exactly its trimmed non-blank segments in order; any      *)
(* other text ends the parse with the categories error citing the row's    *)
(* line number.                                                            *)

C3_Categories ==
    HeaderComplete =>
        \A k \in 1..examined.parser :
            LET text == DataRow(k)["categories"]
                made == ParserRecords[k]["categories"]
            IN  text # None =>
                    IF CategoriesAcceptable(text)
                    THEN /\ ~IsValidationError(outcome.parser, CategoriesMessage, k + 1)
                         /\ k <= Len(ParserRecords) =>
                                /\ made = UsableSegments(text)
                                /\ IsBlank(text) => made = <<>>
                                /\ \A j \in 1..Len(made) :
                                       ~IsBlank(made[j]) /\ Strip(made[j]) = made[j]
                    ELSE /\ k = examined.parser
                         /\ IsValidationError(outcome.parser, CategoriesMessage, k + 1)

C3_Witness ==
    /\ examined.parser = 2
    /\ IsValidationError(outcome.parser, CategoriesMessage, 3)
    /\ Len(SplitOnDelimiter(DataRow(1)["categories"])) = 4
    /\ Len(UsableSegments(DataRow(1)["categories"])) = 2
    /\ ~IsBlank(DataRow(2)["categories"])

-----------------------------------------------------------------------------
(* C4: when the header line of an existing file lacks required columns,    *)
(* both functions fail with the columns error before any data row is read  *)
(* or any lookup issued, and the message lists exactly the missing         *)
(* columns, comma-joined, in required-column order; when none is missing   *)
(* no columns error is raised.                                             *)

\* the i-th required column, in the order the specification lists them
SpecifiedOrder ==
    <<"new_database", "flow_name", "code", "unit", "CAS number", "categories", "cf">>

SpecifiedMissing ==
    SelectSeq(SpecifiedOrder,
              LAMBDA c : \A j \in 1..Len(file.records[1]) : file.records[1][j] # c)

\* joined is the names separated by ", "
IsCommaJoined(joined, names) ==
    /\ Len(joined) = 2 * Len(names) - 1
    /\ \A i \in 1..Len(names) : joined[2 * i - 1] = names[i]
    /\ \A i \in 1..(Len(names) - 1) : joined[2 * i] = ", "

C4_MissingColumns ==
    \A f \in {"parser", "resolver"} :
        (outcome[f] # Pending /\ file.exists /\ file.records # <<>>) =>
            IF SpecifiedMissing # <<>>
            THEN /\ outcome[f].exc = "ValueError"
                 /\ outcome[f].what = ColumnsMessage
                 /\ IsCommaJoined(outcome[f].names[2], SpecifiedMissing)
                 /\ examined[f] = 0
                 /\ lookups = <<>>
            ELSE ~(outcome[f].exc = "ValueError" /\ outcome[f].what = ColumnsMessage)

C4_Witness ==
    /\ outcome.resolver.exc = "ValueError"
    /\ outcome.resolver.what = ColumnsMessage
    /\ outcome.parser.exc = "ValueError"
    /\ outcome.parser.what = ColumnsMessage
    /\ outcome.parser.names[2] = <<"flow_name", ", ", "CAS number", ", ", "categories">>
    /\ Len(file.records) > 1

-----------------------------------------------------------------------------
(* C5 as stated: on a file whose rows have a cell for every column and     *)
(* all carry the same non-empty database name, with every lookup           *)
(* succeeding, parse_node_ids_and_cfs                                      *)
(* fails with a validation error on data row k exactly when                *)
(* parse_new_flows_from_csv does, and when both succeed they agree on the  *)
(* cf values and on each row's (name, code).                               *)

LookupErrors == {"UnknownObject", "MultipleResults"}

\* a validation error that cites a data row
IsRowValidation(result) == result.exc = "ValueError" /\ result.line > 0

SameNonEmptyDatabase ==
    \A k \in 1..NumDataRows :
        /\ \A c \in RequiredNames : DataRow(k)[c] # None
        /\ ~IsBlank(DataRow(k)["new_database"])
        /\ DataRow(k)["new_database"] = DataRow(1)["new_database"]

C5_ResolverValidatesLikeParser ==
    (/\ outcome.parser # Pending
     /\ outcome.resolver # Pending
     /\ HeaderComplete
     /\ SameNonEmptyDatabase
     /\ outcome.resolver.exc \notin LookupErrors)
    => /\ IsRowValidation(outcome.parser) <=> IsRowValidation(outcome.resolver)
       /\ IsRowValidation(outcome.parser) => outcome.parser.line = outcome.resolver.line
       /\ (outcome.parser.exc = "none" /\ outcome.resolver.exc = "none") =>
              /\ Len(outcome.resolver.value) = Len(outcome.parser.value)
              /\ \A k \in 1..Len(outcome.parser.value) :
                     /\ outcome.resolver.value[k][2] = outcome.parser.value[k]["cf"]
                     /\ lookups[k] = <<outcome.parser.value[k]["name"],
                                       outcome.parser.value[k]["code"]>>

-----------------------------------------------------------------------------
(* C6 as stated: whenever parse_node_ids_and_cfs returns, every data       *)
(* row's new_database cell equals the first row's, and it is non-empty.    *)

C6_EveryCellEqualsFirst ==
    outcome.resolver.exc = "none" =>
        \A k \in 1..NumDataRows :
            /\ DataRow(k)["new_database"] = DataRow(1)["new_database"]
            /\ DataRow(1)["new_database"] # <<>>

(* C6 as amended: the established name is the trimmed new_database of the  *)
(* first data row and the pass fails if it is empty; a later data row k    *)
(* whose trimmed new_database differs from it ends the pass with the       *)
(* mismatch error citing line k+1, the established name and the trimmed    *)
(* name found, and no other row does; so whenever the function returns,    *)
(* every row's trimmed new_database equals the first row's, non-empty.     *)

C6_EveryTrimmedNameEqualsFirst ==
    (examined.resolver >= 1) =>
        LET first == DataRow(1)["new_database"]
        IN  /\ outcome.resolver.exc = "none" =>
                   \A k \in 1..NumDataRows :
                       /\ Strip(DataRow(k)["new_database"]) = Strip(first)
                       /\ Strip(first) # <<>>
            /\ (op = "resolver" /\ pc = "rows") => database_name = Strip(first)
            /\ (first # None /\ IsBlank(first)) =>
                   /\ examined.resolver = 1
                   /\ outcome.resolver.exc = "ValueError"
                   /\ outcome.resolver.what
                          = "Database name is missing in the 'new_database' column"
            /\ \A k \in 2..examined.resolver :
                   LET found == DataRow(k)["new_database"]
                   IN  found # None =>
                           IF Strip(found) # Strip(first)
                           THEN /\ k = examined.resolver
                                /\ IsValidationError(outcome.resolver, MismatchMessage, k + 1)
                                /\ outcome.resolver.names = <<Strip(first), Strip(found)>>
                           ELSE ~IsValidationError(outcome.resolver, MismatchMessage, k + 1)

C6_Witness ==
    /\ outcome.resolver.exc = "none"
    /\ NumDataRows = 2
    /\ DataRow(2)["new_database"] # DataRow(1)["new_database"]

-----------------------------------------------------------------------------
(* C7 as stated: every record parse_new_flows_from_csv produces has        *)
(* exactly the keys database, name, code, unit, CAS number, categories,    *)
(* type and cf.                                                            *)

C7_RecordKeys ==
    \A k \in 1..Len(ParserRecords) :
        DOMAIN ParserRecords[k] =
            {"database", "name", "code", "unit", "CAS number", "categories", "type", "cf"}

-----------------------------------------------------------------------------
(* C8 as stated: a data row k that either function reaches and whose cf    *)
(* cell is missing or not convertible ends that function with the cf       *)
(* error citing line k+1 (stated here of the rows that have a cell for     *)
(* every other column).                                                    *)

C8_UnconvertibleCfFails ==
    \A f \in {"parser", "resolver"} :
        \A k \in 1..examined[f] :
            (/\ ~Convertible(DataRow(k)["cf"])
             /\ \A c \in RequiredNames \ {"cf"} : DataRow(k)[c] # None) =>
                /\ k = examined[f]
                /\ IsValidationError(outcome[f], CfMessage, k + 1)

(* C8 as amended: ... provided the checks the function makes on row k      *)
(* before it parses cf pass: the categories text for                       *)
(* parse_new_flows_from_csv, the database name for parse_node_ids_and_cfs. *)

ChecksBeforeCfPass(f, k) ==
    IF f = "parser"
    THEN CategoriesAcceptable(DataRow(k)["categories"])
    ELSE LET found == DataRow(k)["new_database"]
         IN  /\ found # None
             /\ ~IsBlank(found)
             /\ Strip(found) = Strip(DataRow(1)["new_database"])

C8_UnconvertibleCfFailsAfterEarlierChecks ==
    \A f \in {"parser", "resolver"} :
        \A k \in 1..examined[f] :
            (~Convertible(DataRow(k)["cf"]) /\ ChecksBeforeCfPass(f, k)) =>
                /\ k = examined[f]
                /\ IsValidationError(outcome[f], CfMessage, k + 1)

C8_Witness ==
    /\ examined.parser = 2
    /\ examined.resolver = 2
    /\ IsValidationError(outcome.parser, CfMessage, 3)
    /\ IsValidationError(outcome.resolver, CfMessage, 3)
    /\ DataRow(2)["cf"] = None

-----------------------------------------------------------------------------
(* C9 as stated: parse_new_flows_from_csv returns a list or raises         *)
(* FileNotFoundError or ValueError, whatever the file holds.               *)

C9_DocumentedErrorsOnly ==
    outcome.parser.exc \in {"pending", "none", "FileNotFoundError", "ValueError"}

-----------------------------------------------------------------------------
(* C10: the lookups parse_node_ids_and_cfs has issued are exactly the      *)
(* (name, code) pairs of data rows 1..m in row order, one per row, where m *)
(* is the number of rows handed over so far, less the last one when the    *)
(* function failed on it before its lookup; a function that raised         *)
(* returned no list.                                                       *)

SpecifiedKey(row) == <<Strip(row["flow_name"]), SpecifiedCode(row)>>

C10_LookupsFollowRows ==
    /\ \A i \in 1..Len(lookups) : LET row == DataRow(i) IN lookups[i] = SpecifiedKey(row)
    /\ Len(lookups) =
           (IF outcome.resolver.exc \in {"pending", "none"} \cup LookupErrors
            THEN examined.resolver
            ELSE IF examined.resolver = 0 THEN 0
            ELSE examined.resolver - 1)
    /\ outcome.resolver.exc = "none" =>
           /\ examined.resolver = NumDataRows
           /\ Len(outcome.resolver.value) = NumDataRows
    /\ outcome.resolver.exc \notin {"pending", "none"} =>
           "value" \notin DOMAIN outcome.resolver

C10_Witness ==
    /\ outcome.resolver.exc = "none"
    /\ Len(lookups) = 2
    /\ lookups[1] = lookups[2]

====
